---- MODULE Spec2Model ----
(***************************************************************************)
(* Conversation router (api/routers/conversations.py).                     *)
(*                                                                         *)
(* The router registers five routes under the prefix /conversations and    *)
(* five handler coroutines.  Each handler runs up to its single `await`    *)
(* of a service function, is suspended while the service works, and is     *)
(* resumed with the service's outcome (a returned value or a raised        *)
(* exception), which it maps to its own outcome.  Requests are handled     *)
(* independently; the router keeps no state of its own, so the state of    *)
(* the model is the collection of the requests being handled, each with    *)
(* its inputs, its position and what was done for it so far.               *)
(*                                                                         *)
(* A handler is entered either by the router dispatching an HTTP request   *)
(* to it (first matching route in registration order) or by a direct call  *)
(* of the coroutine with already-resolved arguments.                       *)
(***************************************************************************)
EXTENDS FiniteSets, Integers, Sequences, TLC

(* ---------------------------------------------------------------- bounds *)

\* Number of requests handled concurrently.
NumReq == 2

(* ------------------------------------------------------------ input sets *)

\* User identities (the two users of the specification's scenarios).
UserIds == {7, 9}

\* The identity resolved by Depends(get_current_user): a singleton {u}, or
\* {} when the request carries no credential.
Callers == {{}} \cup {{u} : u \in UserIds}

SessionIds == {"42"}

ConversationIds == {"uuid-1"}

Methods == {"GET", "POST", "PUT"}

\* Request paths below the prefix /conversations, as sequences of segments.
Paths == {<<>>, <<"session", "42">>, <<"uuid-1">>, <<"get_prd">>, <<"get_prd", "latest">>}

HttpRequests == [method : Methods, path : Paths]

\* A direct call of a handler coroutine (no routing involved).
Direct == [method |-> "CALL", path |-> <<>>]

Targets == HttpRequests \cup {Direct}

(* ------------------------------------------------- values and exceptions *)

None == "None"

Conversation == "Conversation(uuid-1)"

\* Python truthiness of a service result, as tested by `if not conversation`.
Truthy(v) == v # None

\* A value returned by a coroutine.
Returned(v) == [kind |-> "return", status |-> 0, detail |-> "", value |-> v]

\* fastapi.HTTPException(status_code, detail), raised.
HTTPException(status_code, detail) == [kind |-> "HTTPException", status |-> status_code, detail |-> detail, value |-> None]

\* Any exception that is not an HTTPException, raised with message msg.
Exception(msg) == [kind |-> "Exception", status |-> 0, detail |-> msg, value |-> None]

\* isinstance(e, cls) for a raised e: HTTPException is a subclass of Exception.
IsInstance(e, cls) ==
    \/ cls = "HTTPException" /\ e.kind = "HTTPException"
    \/ cls = "Exception" /\ e.kind \in {"HTTPException", "Exception"}

HTTP_403_FORBIDDEN == 403

InternalServerError == HTTPException(500, "Internal server error")

\* What a service call can do: return a value or absence, raise an
\* already-classified HTTP error, or raise anything else.
SecretText == "psycopg2.OperationalError: password authentication failed"

ServiceOutcomes ==
    {Returned(Conversation), Returned(None),
     HTTPException(404, "service: not found"),
     HTTPException(403, "service: forbidden"),
     Exception(SecretText)}

(* ------------------------------------------------------------- routing *)

\* The routes of `router`, in the order in which the decorators register them.
\* A path is a sequence of segments; a segment in braces is a path parameter.
router ==
    << [method |-> "POST", path |-> <<>>, endpoint |-> "create_conversation"],
       [method |-> "GET", path |-> <<"session", "{session_id}">>, endpoint |-> "get_session_conversations"],
       [method |-> "GET", path |-> <<"{conversation_id}">>, endpoint |-> "get_conversation_by_id"],
       [method |-> "PUT", path |-> <<>>, endpoint |-> "update_conversation"],
       [method |-> "GET", path |-> <<"get_prd">>, endpoint |-> "get_latest_prd"] >>

Handlers == {router[i].endpoint : i \in DOMAIN router}

IsParam(seg) == seg \in {"{session_id}", "{conversation_id}"}

\* A route's path matches when the segment counts agree and every literal
\* segment is equal; a parameter segment matches any (non-empty) segment.
PathMatches(pattern, path) ==
    /\ Len(pattern) = Len(path)
    /\ \A i \in 1..Len(pattern) : IsParam(pattern[i]) \/ pattern[i] = path[i]

\* FULL: path and method match; PARTIAL: the path alone; NONE otherwise.
Match(route, method, path) ==
    IF ~PathMatches(route.path, path) THEN "NONE"
    ELSE IF route.method = method THEN "FULL"
    ELSE "PARTIAL"

First(S) == CHOOSE i \in S : \A j \in S : i <= j

\* The router hands the request to the first route that matches in full;
\* failing that, the first partial match answers 405; failing that, 404.
Dispatch(method, path) ==
    LET full == {i \in DOMAIN router : Match(router[i], method, path) = "FULL"}
        partial == {i \in DOMAIN router : Match(router[i], method, path) = "PARTIAL"}
    IN  IF full # {} THEN [match |-> "FULL", endpoint |-> router[First(full)].endpoint]
        ELSE IF partial # {} THEN [match |-> "PARTIAL", endpoint |-> router[First(partial)].endpoint]
        ELSE [match |-> "NONE", endpoint |-> "-"]

\* Handlers declared with current_user = Depends(get_current_user).
RequiresAuth(h) == h # "get_latest_prd"

\* Depends(get_current_user): fails with Unauthorized without a credential.
get_current_user(c) == IF c = {} THEN HTTPException(401, "Not authenticated") ELSE Returned(None)

\* The UserInDB a credential resolves to.
CurrentUser(c) == [user_id |-> CHOOSE u \in c : TRUE]

\* Validation of the declared path parameters (session_id: int,
\* conversation_id: uuid.UUID) of the route that matched.
ParamsValid(h, path) ==
    CASE h = "get_session_conversations" -> path[2] \in SessionIds
      [] h = "get_conversation_by_id" -> path[1] \in ConversationIds
      [] OTHER -> TRUE

\* Handler arguments: the fields of the request model or the parameters.
Args(s, u, c) == [session_id |-> s, user_id |-> u, conversation_id |-> c]

NoArgs == Args("", 0, "")

ArgsOf(h) ==
    CASE h = "create_conversation" -> {Args(s, u, "") : s \in SessionIds, u \in UserIds}
      [] h = "update_conversation" -> {Args(s, u, c) : s \in SessionIds, u \in UserIds, c \in ConversationIds}
      [] h = "get_session_conversations" -> {Args(s, 0, "") : s \in SessionIds}
      [] h = "get_conversation_by_id" -> {Args("", 0, c) : c \in ConversationIds}
      [] h = "get_latest_prd" -> {Args("", u, "") : u \in UserIds}

\* The arguments bound from the path agree with the path.
PathBinds(h, path, a) ==
    CASE h = "get_session_conversations" -> a.session_id = path[2]
      [] h = "get_conversation_by_id" -> a.conversation_id = path[1]
      [] OTHER -> TRUE

\* Request t of caller c enters handler h with arguments a: a direct call
\* with a resolved user where one is declared, or an HTTP request that the
\* router dispatches to h and whose dependencies and parameters resolve.
Admits(t, c, h, a) ==
    /\ a \in ArgsOf(h)
    /\ RequiresAuth(h) => get_current_user(c).kind = "return"
    /\ t # Direct =>
          /\ Dispatch(t.method, t.path) = [match |-> "FULL", endpoint |-> h]
          /\ ParamsValid(h, t.path)
          /\ PathBinds(h, t.path, a)

\* The status with which an HTTP request is answered without any handler
\* running, or 0 when a handler runs.
RejectStatus(t, c) ==
    LET d == Dispatch(t.method, t.path)
    IN  IF d.match = "NONE" THEN 404
        ELSE IF d.match = "PARTIAL" THEN 405
        ELSE IF RequiresAuth(d.endpoint) /\ get_current_user(c).kind # "return" THEN 401
        ELSE IF ~ParamsValid(d.endpoint, t.path) THEN 422
        ELSE 0

Rejected(status_code) == [kind |-> "rejected", status |-> status_code, detail |-> "", value |-> None]

(* --------------------------------------------------------------- state *)

\* The requests, a bag of records (requests carry no identity of their own):
\*   pc       "await" (suspended in the service call) or "done"
\*   target   how the request arrived: an HTTP request line, or Direct
\*   handler  the handler that runs it (for a request answered before any
\*            handler ran: the endpoint of the route that matched, or "-")
\*   caller   the identity its credential resolved to; {} without credential
\*            or when the credential was never looked at
\*   request  the handler's arguments
\*   calls    the service invocations made for it, in order
\*   svc      the outcomes of the service invocations that completed, in order
\*   result   the outcomes (return value or raised exception) produced for it
VARIABLES requests

vars == <<requests>>

\* requests maps each distinct request record to the number of requests equal
\* to it.
Init == requests = <<>>

Reqs == DOMAIN requests

RECURSIVE Sum(_, _)
Sum(f, S) == IF S = {} THEN 0 ELSE LET x == CHOOSE y \in S : TRUE IN f[x] + Sum(f, S \ {x})

\* The number of requests.
Count == Sum(requests, DOMAIN requests)

\* The bag b with one more, or one less, copy of q.
Add(b, q) == IF q \in DOMAIN b THEN [b EXCEPT ![q] = @ + 1] ELSE b @@ (q :> 1)

Remove(b, q) == IF b[q] > 1 THEN [b EXCEPT ![q] = @ - 1] ELSE [x \in DOMAIN b \ {q} |-> b[x]]

(* ------------------------------------------------------ handler pieces *)

\* The comparison inverted.
UserIdMismatch_inverted(current_user_id, request_user_id) == current_user_id = request_user_id

\* `if current_user.user_id != request.user_id` of create and update.
UserIdMismatch(current_user_id, request_user_id) == current_user_id # request_user_id

Forbidden == HTTPException(HTTP_403_FORBIDDEN, "User ID does not match the authenticated user's ID")

\* The call made again after the first attempt.
Await_retried(op, args) == << [op |-> op, args |-> args], [op |-> op, args |-> args] >>

\* The service invocations made by one `await op(*args)`.
Await(op, args) == << [op |-> op, args |-> args] >>

\* try: return await service(...)   except Exception: raise HTTPException(500)
\* (create_conversation, get_session_conversations, update_conversation)
TryReturnExceptException(o) ==
    IF o.kind = "return" THEN Returned(o.value)
    ELSE IF IsInstance(o, "Exception") THEN InternalServerError
    ELSE o

\* The awaited value dropped (`return` forgotten).
create_conversation_result_dropped(o) ==
    IF o.kind = "return" THEN Returned(None)
    ELSE IF IsInstance(o, "Exception") THEN InternalServerError
    ELSE o

\* The try/except of create_conversation.
create_conversation_result(o) == TryReturnExceptException(o)

\* The try body of get_conversation_by_id: absence raises 404 inside the try.
get_conversation_by_id_try(o) ==
    IF o.kind = "return"
    THEN IF ~Truthy(o.value) THEN HTTPException(404, "Conversation not found")
         ELSE Returned(o.value)
    ELSE o

\* The except clauses without the re-raise of HTTPException.
get_conversation_by_id_except_wrapall(x) ==
    IF x.kind = "return" THEN x
    ELSE IF IsInstance(x, "Exception") THEN InternalServerError
    ELSE x

\* Its except clauses, in order: HTTPException is re-raised, anything else is
\* replaced by 500.
get_conversation_by_id_except(x) ==
    IF x.kind = "return" THEN x
    ELSE IF IsInstance(x, "HTTPException") THEN x
    ELSE IF IsInstance(x, "Exception") THEN InternalServerError
    ELSE x

\* The except clauses of get_conversation_by_id used in another handler.
get_session_conversations_result_passthrough(o) == get_conversation_by_id_except(o)

update_conversation_result_passthrough(o) == get_conversation_by_id_except(o)

\* The try/except of get_session_conversations.
get_session_conversations_result(o) == TryReturnExceptException(o)

\* The try/except of update_conversation.
update_conversation_result(o) == TryReturnExceptException(o)

\* The try/except of get_conversation_by_id: its except clauses applied to
\* what its try body returns or raises.
get_conversation_by_id_result(o) == get_conversation_by_id_except(get_conversation_by_id_try(o))

\* The service call of get_latest_prd wrapped like that of the other handlers.
get_latest_prd_result_wrapped(o) == TryReturnExceptException(o)

\* `return await get_prd_service(user_id)`: no try, whatever the service
\* returns or raises is the handler's outcome.
get_latest_prd_result(o) == o

(* ------------------------------------------------------------- actions *)

\* A new request: handler h starts running with the given inputs and either
\* raises at once or is suspended in its service call.
Start(h, t, c, a, raised, invocations) ==
    requests' = Add(requests,
          [pc |-> IF raised # <<>> THEN "done" ELSE "await",
           target |-> t, handler |-> h, caller |-> c, request |-> a,
           calls |-> invocations, svc |-> <<>>, result |-> raised])

\* Another request can be taken on.
Accepting == Count < NumReq

\* The service call of request q completes with outcome o and the handler
\* finishes with outcome out.
Finish(q, o, out) ==
    requests' = Add(Remove(requests, q),
          [q EXCEPT !.pc = "done", !.svc = Append(@, o), !.result = Append(@, out)])

create_conversation ==
    /\ Accepting
    /\ \E t \in Targets, c \in Callers, a \in ArgsOf("create_conversation") :
        /\ Admits(t, c, "create_conversation", a)
        /\ LET current_user == CurrentUser(c)
           IN  IF UserIdMismatch(current_user.user_id, a.user_id)
               THEN Start("create_conversation", t, c, a, <<Forbidden>>, <<>>)
               ELSE Start("create_conversation", t, c, a, <<>>,
                          Await("create_conversation_service", <<a, current_user>>))

create_conversation_resume ==
    \E q \in Reqs, o \in ServiceOutcomes :
        /\ q.pc = "await"
        /\ q.handler = "create_conversation"
        /\ Finish(q, o, create_conversation_result(o))

get_session_conversations ==
    /\ Accepting
    /\ \E t \in Targets, c \in Callers, a \in ArgsOf("get_session_conversations") :
        /\ Admits(t, c, "get_session_conversations", a)
        /\ Start("get_session_conversations", t, c, a, <<>>,
                 Await("get_session_conversations_service", <<a.session_id, CurrentUser(c).user_id>>))

get_session_conversations_resume ==
    \E q \in Reqs, o \in ServiceOutcomes :
        /\ q.pc = "await"
        /\ q.handler = "get_session_conversations"
        /\ Finish(q, o, get_session_conversations_result(o))

get_conversation_by_id ==
    /\ Accepting
    /\ \E t \in Targets, c \in Callers, a \in ArgsOf("get_conversation_by_id") :
        /\ Admits(t, c, "get_conversation_by_id", a)
        /\ Start("get_conversation_by_id", t, c, a, <<>>,
                 Await("get_conversations_service", <<a.conversation_id, CurrentUser(c).user_id>>))

get_conversation_by_id_resume ==
    \E q \in Reqs, o \in ServiceOutcomes :
        /\ q.pc = "await"
        /\ q.handler = "get_conversation_by_id"
        /\ Finish(q, o, get_conversation_by_id_result(o))

update_conversation ==
    /\ Accepting
    /\ \E t \in Targets, c \in Callers, a \in ArgsOf("update_conversation") :
        /\ Admits(t, c, "update_conversation", a)
        /\ IF UserIdMismatch(CurrentUser(c).user_id, a.user_id)
           THEN Start("update_conversation", t, c, a, <<Forbidden>>, <<>>)
           ELSE Start("update_conversation", t, c, a, <<>>,
                      Await("update_conversation_service", <<a>>))

update_conversation_resume ==
    \E q \in Reqs, o \in ServiceOutcomes :
        /\ q.pc = "await"
        /\ q.handler = "update_conversation"
        /\ Finish(q, o, update_conversation_result(o))

\* get_latest_prd with the ownership check of create and update.
get_latest_prd_owned ==
    /\ Accepting
    /\ \E t \in Targets, c \in Callers, a \in ArgsOf("get_latest_prd") :
        /\ Admits(t, c, "get_latest_prd", a)
        /\ IF c = {} \/ UserIdMismatch(CurrentUser(c).user_id, a.user_id)
           THEN Start("get_latest_prd", t, c, a, <<Forbidden>>, <<>>)
           ELSE Start("get_latest_prd", t, c, a, <<>>, Await("get_prd_service", <<a.user_id>>))

get_latest_prd ==
    /\ Accepting
    /\ \E t \in Targets, c \in Callers, a \in ArgsOf("get_latest_prd") :
        /\ Admits(t, c, "get_latest_prd", a)
        /\ Start("get_latest_prd", t, c, a, <<>>, Await("get_prd_service", <<a.user_id>>))

get_latest_prd_resume ==
    \E q \in Reqs, o \in ServiceOutcomes :
        /\ q.pc = "await"
        /\ q.handler = "get_latest_prd"
        /\ Finish(q, o, get_latest_prd_result(o))

\* An HTTP request that no handler runs for: no route matches (404), the
\* method is not the route's (405), the credential is missing (401) or a path
\* parameter does not validate (422).  The credential is looked at only once
\* a route has matched in full.
Reject ==
    /\ Accepting
    /\ \E t \in HttpRequests, c \in Callers :
        /\ RejectStatus(t, c) # 0
        /\ Dispatch(t.method, t.path).match # "FULL" => c = {}
        /\ requests' = Add(requests,
              [pc |-> "done", target |-> t,
               handler |-> Dispatch(t.method, t.path).endpoint,
               caller |-> c, request |-> NoArgs, calls |-> <<>>, svc |-> <<>>,
               result |-> <<Rejected(RejectStatus(t, c))>>])

Next ==
    \/ create_conversation
    \/ create_conversation_resume
    \/ get_session_conversations
    \/ get_session_conversations_resume
    \/ get_conversation_by_id
    \/ get_conversation_by_id_resume
    \/ update_conversation
    \/ update_conversation_resume
    \/ get_latest_prd
    \/ get_latest_prd_resume
    \/ Reject

Spec == Init /\ [][Next]_vars

(* -------------------------------------------------------------- claims *)

\* A handler ran for request q (it was not answered before any handler ran).
Entered(q) == q.request # NoArgs

\* The service call of q completed.
Completed(q) == q.svc # <<>>

CreateOrUpdate == {"create_conversation", "update_conversation"}

\* q is a create or update request whose user_id is not the caller's.
Mismatched(q) ==
    /\ Entered(q)
    /\ q.handler \in CreateOrUpdate
    /\ q.request.user_id # CurrentUser(q.caller).user_id

\* q is a create or update request whose user_id is the caller's.
Owned(q) ==
    /\ Entered(q)
    /\ q.handler \in CreateOrUpdate
    /\ q.request.user_id = CurrentUser(q.caller).user_id

\* C1: every create or update request whose user_id differs from the
\* authenticated caller's is answered Forbidden (403), and no service
\* operation is invoked for it.
C1_MismatchForbidden ==
    \A q \in Reqs :
        Mismatched(q) =>
            /\ q.pc = "done"
            /\ q.result = <<Forbidden>>
            /\ q.result[1].status = 403
            /\ q.calls = <<>>
            /\ q.svc = <<>>

\* C1 witness: a create and an update request, each with another user's id,
\* have been answered.
C1_Witness ==
    \A h \in CreateOrUpdate :
        \E q \in Reqs : Mismatched(q) /\ q.handler = h /\ q.pc = "done"

\* C2: for every create or update request whose user_id is the caller's and
\* whose service call returned a value, the handler returns exactly that
\* value.
C2_ReturnsServiceValue ==
    \A q \in Reqs :
        (Owned(q) /\ Completed(q) /\ q.svc[1].kind = "return") =>
            q.result = <<Returned(q.svc[1].value)>>

\* C2 witness: a create and an update request of the caller's own id have
\* returned the conversation the service returned.
C2_Witness ==
    \A h \in CreateOrUpdate :
        \E q \in Reqs :
            /\ Owned(q) /\ q.handler = h
            /\ q.svc = <<Returned(Conversation)>>
            /\ q.pc = "done"

\* C3: get conversation by id answers NotFound (404, not 500) when the
\* service returns absence, and returns the service's value otherwise.
C3_AbsenceIsNotFound ==
    \A q \in Reqs :
        (q.handler = "get_conversation_by_id" /\ Completed(q) /\ q.svc[1].kind = "return") =>
            IF q.svc[1].value = None
            THEN q.result = <<HTTPException(404, "Conversation not found")>>
            ELSE q.result = <<Returned(q.svc[1].value)>>

\* C3 witness: one get-by-id request found nothing, another found a
\* conversation.
C3_Witness ==
    /\ \E q \in Reqs : q.handler = "get_conversation_by_id" /\ q.svc = <<Returned(None)>>
    /\ \E q \in Reqs : q.handler = "get_conversation_by_id" /\ q.svc = <<Returned(Conversation)>>

PassThrough == {"get_conversation_by_id", "get_latest_prd"}

\* C4: in get conversation by id and get latest PRD, an HTTP-style error
\* raised by the service is the handler's outcome, with its status and detail
\* unchanged.
C4_ClassifiedPassesThrough ==
    \A q \in Reqs :
        (q.handler \in PassThrough /\ Completed(q) /\ q.svc[1].kind = "HTTPException") =>
            /\ q.result = <<q.svc[1]>>
            /\ q.result[1].status = q.svc[1].status
            /\ q.result[1].detail = q.svc[1].detail

\* C4 witness: in each of the two handlers the service has raised an
\* HTTP-style error.
C4_Witness ==
    \A h \in PassThrough :
        \E q \in Reqs : q.handler = h /\ Completed(q) /\ q.svc[1].kind = "HTTPException"

\* C5 (as claimed): in every one of the five handlers an unclassified error
\* raised by the service is answered with the generic 500, and the text of
\* the error is not part of the outcome.
C5_UnclassifiedIsInternalError ==
    \A q \in Reqs :
        (Entered(q) /\ Completed(q) /\ q.svc[1].kind = "Exception") =>
            /\ q.result = <<InternalServerError>>
            /\ q.result[1].detail # q.svc[1].detail

\* C6 (as claimed): a GET of /conversations/get_prd without credential is
\* handled by get_latest_prd.
C6_GetPrdReachesHandler ==
    \A q \in Reqs :
        (q.target = [method |-> "GET", path |-> <<"get_prd">>] /\ q.caller = {}) =>
            /\ q.handler = "get_latest_prd"
            /\ Entered(q)

\* The statuses of the interface table.
TableStatuses(h) ==
    CASE h \in CreateOrUpdate -> {403, 500}
      [] h = "get_session_conversations" -> {500}
      [] h = "get_conversation_by_id" -> {404, 500}

\* q was answered with an error by its handler.
Failed(q) ==
    /\ Entered(q)
    /\ q.handler # "get_latest_prd"
    /\ q.pc = "done"
    /\ q.result[1].kind # "return"

\* C7 (as claimed): the error statuses of create, update, list and get by id
\* are those of the interface table, whatever the service does.
C7_OnlyTableStatuses ==
    \A q \in Reqs :
        Failed(q) =>
            /\ q.result[1].kind = "HTTPException"
            /\ q.result[1].status \in TableStatuses(q.handler)

\* C7 (amended): the same, except that get by id also answers with the
\* status of an HTTP-style error raised by the service.
C7_TableOrServiceStatus ==
    \A q \in Reqs :
        Failed(q) =>
            /\ q.result[1].kind = "HTTPException"
            /\ \/ q.result[1].status \in TableStatuses(q.handler)
               \/ /\ q.handler = "get_conversation_by_id"
                  /\ q.svc = <<q.result[1]>>

\* C7 witness: a list request failed in the service, and a get-by-id request
\* was answered with the 403 its service raised.
C7_Witness ==
    /\ \E q \in Reqs :
          /\ q.handler = "get_session_conversations"
          /\ Failed(q)
          /\ q.svc[1].kind = "HTTPException"
    /\ \E q \in Reqs :
          /\ q.handler = "get_conversation_by_id"
          /\ Failed(q)
          /\ q.result[1].status = 403

Wrapping == {"create_conversation", "get_session_conversations", "update_conversation"}

\* C9: in create, list and update every failure of the service call, an
\* HTTP-style error included, is answered with the generic 500.
C9_EveryFailureIsInternalError ==
    \A q \in Reqs :
        (q.handler \in Wrapping /\ Completed(q) /\ q.svc[1].kind # "return") =>
            /\ q.result = <<InternalServerError>>
            /\ q.result[1].status = 500
            /\ q.result[1].detail = "Internal server error"

\* C9 witness: the service of a create request raised a 404 and that of an
\* update request a 403.
C9_Witness ==
    /\ \E q \in Reqs : q.handler = "create_conversation" /\ q.svc = <<HTTPException(404, "service: not found")>>
    /\ \E q \in Reqs : q.handler = "update_conversation" /\ q.svc = <<HTTPException(403, "service: forbidden")>>

\* The service function each handler calls.
ServiceOf(h) ==
    CASE h = "create_conversation" -> "create_conversation_service"
      [] h = "get_session_conversations" -> "get_session_conversations_service"
      [] h = "get_conversation_by_id" -> "get_conversations_service"
      [] h = "update_conversation" -> "update_conversation_service"
      [] h = "get_latest_prd" -> "get_prd_service"

\* C10: whatever the interleaving, a request has its handler's service
\* operation invoked once if it passes the ownership check (or has none) and
\* not at all if it is answered 403, never again after the call has failed,
\* and once its service call has completed it has exactly one outcome.
C10_OneCallOneResponse ==
    \A q \in Reqs :
        /\ Len(q.calls) <= 1
        /\ Len(q.svc) <= Len(q.calls)
        /\ \A i \in DOMAIN q.calls : q.calls[i].op = ServiceOf(q.handler)
        /\ Entered(q) =>
              IF Mismatched(q)
              THEN q.calls = <<>> /\ q.result = <<Forbidden>>
              ELSE Len(q.calls) = 1
        /\ Completed(q) => (q.pc = "done" /\ Len(q.result) = 1)
        /\ q.pc = "await" => (q.result = <<>> /\ q.svc = <<>>)

\* C10 witness: while one request is suspended in its service call, another
\* has ended after its service call failed.
C10_Witness ==
    \E q1, q2 \in Reqs :
        /\ q1.pc = "await"
        /\ q2.pc = "done" /\ Completed(q2) /\ q2.svc[1].kind = "Exception"
        /\ Len(q2.calls) = 1

====
